---- MODULE Spec2Model ----
(***************************************************************************)
(* Model of the Streamlit client of the RAG assistant (frontend/app.py):   *)
(* the session state kept across reruns of main(), one chat turn of        *)
(* render_chat_interface (user append, POST /chat/, reply or exception     *)
(* handling), the document upload of render_document_upload_section, and   *)
(* the trace formatter display_trace_events.                               *)
(*                                                                         *)
(* Python dicts are functions whose DOMAIN is the set of keys present, so  *)
(* that "k in d" is k \in DOMAIN d and d[k] on an absent key is a KeyError *)
(* the model has to raise itself.  Exceptions are records carrying their   *)
(* class; an except clause matches through the class's ancestors.          *)
(***************************************************************************)
EXTENDS Integers, Sequences, FiniteSets, TLC

VARIABLES
    session_state,   \* st.session_state: dict with keys among messages, session_id, web_search_enabled
    pc,              \* position of the script run: idle / awaiting / resolved (trace / traced in SpecTrace)
    prompt,          \* the prompt of the turn in progress
    sent,            \* the JSON payload of the outstanding POST /chat/ (empty dict when none)
    reply,           \* what the network returned for the outstanding POST /chat/
    turn_start,      \* history variable: the messages when the current or last turn was submitted
    outcome,         \* history variable: how the last turn ended
    turns,           \* history variable: number of turns submitted
    clean,           \* history variable: every turn so far ran its try block to the end
    upload_outcome,  \* the upload click of this run: file, reply and what the section showed
    trace_events,    \* the argument of the last display_trace_events call
    displayed,       \* what the last display_trace_events call emitted
    json_error       \* the class Response.json() raises in the installed requests

vars == << session_state, pc, prompt, sent, reply, turn_start, outcome, turns,
           clean, upload_outcome, trace_events, displayed, json_error >>

\* ------------------------------------------------------------------ bounds

MaxTurns == 2

MaxTraceLen == 2

MaxChatTraceLen == 1

\* ------------------------------------------------------------------ dicts

EmptyDict == [k \in {} |-> k]

Has(d, k) == k \in DOMAIN d

Put(d, k, v) == [j \in (DOMAIN d) \cup {k} |-> IF j = k THEN v ELSE d[j]]

\* ------------------------------------------------------------------ trace events

NodeNames == {"router", "rag_lookup", "web_search", "unknown_node"}

Verdicts == {"Sufficient", "Insufficient"}

Summary == "chunk text"

DetailsSet ==
    {EmptyDict} \cup
    {[sufficiency_verdict |-> v] : v \in Verdicts} \cup
    {[retrieved_content_summary |-> Summary]} \cup
    {[sufficiency_verdict |-> v, retrieved_content_summary |-> Summary] : v \in Verdicts} \cup
    {[route |-> "rag"]}

\* Events as the backend's JSON may carry them; the step is set by position.
EventBodies ==
    {[node_name |-> n, description |-> "d", details |-> dt] : n \in NodeNames, dt \in DetailsSet}
    \cup {[node_name |-> n, description |-> "d"] : n \in NodeNames}
    \cup {[node_name |-> "router", details |-> EmptyDict]}

RECURSIVE SeqsUpTo(_, _)
SeqsUpTo(S, n) ==
    IF n = 0 THEN {<< >>}
    ELSE LET shorter == SeqsUpTo(S, n - 1)
         IN  shorter \cup {Append(s, e) : s \in {t \in shorter : Len(t) = n - 1}, e \in S}

Stepped(bodies) == [i \in 1..Len(bodies) |-> Put(bodies[i], "step", i)]

Traces(S, n) == {Stepped(b) : b \in SeqsUpTo(S, n)}

\* ------------------------------------------------------------------ display_trace_events

Gear == "gear"

icon_map == [router |-> "arrow", rag_lookup |-> "books", web_search |-> "globe",
             answer |-> "bulb", __end__ |-> "check"]

Icon(node_name) == IF node_name \in DOMAIN icon_map THEN icon_map[node_name] ELSE Gear

\* DetailLines with the verdict test inverted.
DetailLines_inverted(event) ==
    LET details == event.details
        node    == event.node_name
    IN  IF node = "rag_lookup" /\ Has(details, "sufficiency_verdict")
        THEN << [call |-> IF details.sufficiency_verdict # "Sufficient" THEN "success" ELSE "warning",
                 label |-> "RAG Verdict", text |-> details.sufficiency_verdict] >>
             \o (IF Has(details, "retrieved_content_summary")
                 THEN << [call |-> "markdown", label |-> "Retrieved Content Summary",
                          text |-> details.retrieved_content_summary] >>
                 ELSE << >>)
        ELSE IF node = "web_search" /\ Has(details, "retrieved_content_summary")
        THEN << [call |-> "markdown", label |-> "Web Search Content Summary",
                 text |-> details.retrieved_content_summary] >>
        ELSE IF details # EmptyDict
        THEN << [call |-> "json", body |-> details] >>
        ELSE << >>

\* The sub-lines of one event (lines 146-161), given that event['details'] exists.
DetailLines(event) ==
    LET details == event.details
        node    == event.node_name
    IN  IF node = "rag_lookup" /\ Has(details, "sufficiency_verdict")
        THEN << [call |-> IF details.sufficiency_verdict = "Sufficient" THEN "success" ELSE "warning",
                 label |-> "RAG Verdict", text |-> details.sufficiency_verdict] >>
             \o (IF Has(details, "retrieved_content_summary")
                 THEN << [call |-> "markdown", label |-> "Retrieved Content Summary",
                          text |-> details.retrieved_content_summary] >>
                 ELSE << >>)
        ELSE IF node = "web_search" /\ Has(details, "retrieved_content_summary")
        THEN << [call |-> "markdown", label |-> "Web Search Content Summary",
                 text |-> details.retrieved_content_summary] >>
        ELSE IF details # EmptyDict
        THEN << [call |-> "json", body |-> details] >>
        ELSE << >>

\* One iteration of the loop (lines 132-163): the record shown for the event and
\* the KeyError raised by the first subscript of an absent key, if any.  What
\* was emitted before the raise stays on the page; the separator is emitted
\* only when the iteration ends.
DisplayEvent(event) ==
    IF ~Has(event, "node_name")
    THEN [raised |-> "KeyError", key |-> "node_name", record |-> [separator |-> FALSE]]
    ELSE IF ~Has(event, "step")
    THEN [raised |-> "KeyError", key |-> "step",
          record |-> [icon |-> Icon(event.node_name), separator |-> FALSE]]
    ELSE IF ~Has(event, "description")
    THEN [raised |-> "KeyError", key |-> "description",
          record |-> [icon |-> Icon(event.node_name), step |-> event.step,
                      node_name |-> event.node_name, separator |-> FALSE]]
    ELSE IF ~Has(event, "details")
    THEN [raised |-> "KeyError", key |-> "details",
          record |-> [icon |-> Icon(event.node_name), step |-> event.step,
                      node_name |-> event.node_name, description |-> event.description,
                      separator |-> FALSE]]
    ELSE [raised |-> "none",
          record |-> [icon |-> Icon(event.node_name), step |-> event.step,
                      node_name |-> event.node_name, description |-> event.description,
                      lines |-> DetailLines(event), separator |-> TRUE]]

RECURSIVE DisplayLoop(_, _, _)
DisplayLoop(events, i, records) ==
    IF i > Len(events)
    THEN [called |-> TRUE, expander |-> TRUE, raised |-> "none", records |-> records]
    ELSE LET r == DisplayEvent(events[i])
         IN  IF r.raised # "none"
             THEN [called |-> TRUE, expander |-> TRUE, raised |-> r.raised, key |-> r.key,
                   records |-> Append(records, r.record)]
             ELSE DisplayLoop(events, i + 1, Append(records, r.record))

display_trace_events(events) ==
    IF events # << >>
    THEN DisplayLoop(events, 1, << >>)
    ELSE [called |-> TRUE, expander |-> FALSE, raised |-> "none", records |-> << >>]

NotDisplayed == [called |-> FALSE, expander |-> FALSE, raised |-> "none", records |-> << >>]

\* ------------------------------------------------------------------ session state

Greeting == "Hello! How can I help you today?"

Message(role, content) == [role |-> role, content |-> content]

NoOutcome == [result |-> "none"]

NoUpload == [clicked |-> FALSE]

NoReply == [kind |-> "none"]

\* ------------------------------------------------------------------ exceptions

\* The classes an exception of class cls is an instance of.  requests'
\* JSONDecodeError (2.27 and later) derives from both InvalidJSONError, a
\* RequestException, and json.JSONDecodeError; before 2.27 Response.json()
\* raised the json module's own error.
Ancestors(cls) ==
    CASE cls = "ConnectionError" -> {"ConnectionError", "RequestException", "Exception"}
      [] cls = "HTTPError" -> {"HTTPError", "RequestException", "Exception"}
      [] cls = "RequestsJSONDecodeError" ->
            {"RequestsJSONDecodeError", "InvalidJSONError", "RequestException",
             "JSONDecodeError", "ValueError", "Exception"}
      [] cls = "JSONDecodeError" -> {"JSONDecodeError", "ValueError", "Exception"}
      [] cls = "AttributeError" -> {"AttributeError", "Exception"}
      [] cls = "KeyError" -> {"KeyError", "LookupError", "Exception"}

IsInstance(e, cls) == cls \in Ancestors(e.cls)

NoResponse == [kind |-> "none"]

NoExc == [cls |-> "none"]

Exc(cls, str, response) == [cls |-> cls, str |-> str, response |-> response]

JSONErrorClasses == {"RequestsJSONDecodeError", "JSONDecodeError"}

\* ------------------------------------------------------------------ HTTP replies

Statuses == {200, 404, 500}

\* Response.raise_for_status(): HTTPError for 4xx and 5xx.
RaisesForStatus(status) == 400 <= status /\ status < 600

\* Response.__bool__ is Response.ok: False exactly when raise_for_status() raises.
ResponseOk(response) == ~RaisesForStatus(response.status)

\* Truth value of e.response: None is falsy, a Response is as truthy as it is ok.
Truthy(response) == response.kind = "response" /\ ResponseOk(response)

HTTPErrorStr(status) ==
    IF status < 500 THEN "404 Client Error: Not Found for url"
    ELSE "500 Server Error: Internal Server Error for url"

InvalidBody == [form |-> "invalid", text |-> "<html>Bad Gateway</html>"]

EmptyBody == [form |-> "invalid", text |-> ""]

ArrayBody == [form |-> "array", text |-> "[]"]

DetailBody == [form |-> "object", text |-> "{detail: ingestion failed}",
               data |-> [detail |-> "ingestion failed"]]

ErrorBodies == {EmptyBody, DetailBody}

Unreachable == [kind |-> "unreachable"]

Response(status, body) == [kind |-> "response", status |-> status, body |-> body]

\* Response.json(): the parsed body, or the decode error of the installed requests.
ResponseJson(response, json_error_cls) ==
    IF response.body.form = "invalid"
    THEN [raised |-> Exc(json_error_cls, "Expecting value: line 1 column 1 (char 0)", NoResponse)]
    ELSE [raised |-> NoExc, form |-> response.body.form,
          data |-> IF response.body.form = "object" THEN response.body.data ELSE EmptyDict]

\* dict.get(key, default)
Get(d, k, default) == IF Has(d, k) THEN d[k] ELSE default

\* ------------------------------------------------------------------ call_backend_chat_api

ChatEvents ==
    {[node_name |-> "router", description |-> "d", details |-> [route |-> "rag"]],
     [node_name |-> "rag_lookup", description |-> "d",
      details |-> [sufficiency_verdict |-> "Insufficient", retrieved_content_summary |-> Summary]],
     [node_name |-> "router", description |-> "d"]}

ChatTraces == Traces(ChatEvents, MaxChatTraceLen)

Answer == "answer"

DefaultAnswer == "Sorry, I couldn't get a response from the agent."

ChatBodies ==
    {InvalidBody, ArrayBody,
     [form |-> "object", text |-> "{}", data |-> EmptyDict],
     [form |-> "object", text |-> "{response}", data |-> [response |-> Answer]]}
    \cup {[form |-> "object", text |-> "{response, trace_events}",
           data |-> [response |-> Answer, trace_events |-> t]] : t \in ChatTraces}

ChatReplies ==
    {Unreachable}
    \cup {Response(200, b) : b \in ChatBodies}
    \cup {Response(s, b) : s \in Statuses \ {200}, b \in ErrorBodies}

\* Lines 116-123: what the call returns, or the exception it raises.
call_backend_chat_api(r, json_error_cls) ==
    IF r.kind = "unreachable"
    THEN [raised |-> Exc("ConnectionError", "Connection refused", NoResponse)]
    ELSE IF RaisesForStatus(r.status)
    THEN [raised |-> Exc("HTTPError", HTTPErrorStr(r.status), r)]
    ELSE LET parsed == ResponseJson(r, json_error_cls)
         IN  IF parsed.raised # NoExc
             THEN [raised |-> parsed.raised]
             ELSE IF parsed.form # "object"
             THEN [raised |-> Exc("AttributeError", "'list' object has no attribute 'get'", NoResponse)]
             ELSE [raised |-> NoExc,
                   agent_response |-> Get(parsed.data, "response", DefaultAnswer),
                   trace_events |-> Get(parsed.data, "trace_events", << >>)]

\* ChatHandler without the final "except Exception" clause.
ChatHandler_noCatchAll(e) ==
    IF IsInstance(e, "ConnectionError")
    THEN [branch |-> "connection", content |-> "Error: Could not connect to the backend."]
    ELSE IF IsInstance(e, "RequestException")
    THEN [branch |-> "request", content |-> "Error: " \o e.str]
    ELSE IF IsInstance(e, "JSONDecodeError")
    THEN [branch |-> "decode", content |-> "Error: Invalid response from backend."]
    ELSE [branch |-> "uncaught", content |-> ""]

\* Lines 200-211: the first except clause the exception is an instance of, and the
\* assistant message it records.
ChatHandler(e) ==
    IF IsInstance(e, "ConnectionError")
    THEN [branch |-> "connection", content |-> "Error: Could not connect to the backend."]
    ELSE IF IsInstance(e, "RequestException")
    THEN [branch |-> "request", content |-> "Error: " \o e.str]
    ELSE IF IsInstance(e, "JSONDecodeError")
    THEN [branch |-> "decode", content |-> "Error: Invalid response from backend."]
    ELSE IF IsInstance(e, "Exception")
    THEN [branch |-> "unexpected", content |-> "Unexpected Error: " \o e.str]
    ELSE [branch |-> "uncaught", content |-> ""]

\* ------------------------------------------------------------------ document upload

UploadBodies ==
    {InvalidBody, ArrayBody,
     [form |-> "object", text |-> "{filename, processed_chunks}",
      data |-> [filename |-> "doc.pdf", processed_chunks |-> "3"]]}

UploadReplies ==
    {Unreachable}
    \cup {Response(200, b) : b \in UploadBodies}
    \cup {Response(s, b) : s \in Statuses \ {200}, b \in ErrorBodies}

Placeholder == "No response from backend."

\* Lines 58-82: what the section shows after the button was clicked.  An
\* f-string is kept as the sequence of its parts.
upload_document(uploaded_file, r, json_error_cls) ==
    IF uploaded_file = "none"
    THEN [call |-> "warning", parts |-> << "Please upload a PDF file before clicking 'Upload PDF'." >>]
    ELSE LET raised ==
                 IF r.kind = "unreachable"
                 THEN Exc("ConnectionError", "Connection refused", NoResponse)
                 ELSE IF RaisesForStatus(r.status)
                 THEN Exc("HTTPError", HTTPErrorStr(r.status), r)
                 ELSE LET parsed == ResponseJson(r, json_error_cls)
                      IN  IF parsed.raised # NoExc THEN parsed.raised
                          ELSE IF parsed.form # "object"
                          THEN Exc("AttributeError", "'list' object has no attribute 'get'", NoResponse)
                          ELSE NoExc
         IN  IF raised = NoExc
             THEN [call |-> "success",
                   parts |-> << "PDF '", Get(r.body.data, "filename", "None"),
                                "' uploaded successfully! Processed ",
                                Get(r.body.data, "processed_chunks", "None"), " pages." >>]
             ELSE IF IsInstance(raised, "ConnectionError")
             THEN [call |-> "error",
                   parts |-> << "Could not connect to the FastAPI backend. Please ensure it's running." >>]
             ELSE IF IsInstance(raised, "RequestException")
             THEN [call |-> "error",
                   parts |-> << "Error uploading document: ", raised.str, ". Response: ",
                                IF Truthy(raised.response) THEN raised.response.body.text
                                ELSE Placeholder >>]
             ELSE [call |-> "error",
                   parts |-> << "An unexpected error occurred during upload: ", raised.str >>]

\* ------------------------------------------------------------------ main() and its sections

UUIDs == {"uuid-a", "uuid-b"}

Prompts == {"", "hello"}

\* init_session_state that greets on every call instead of once per session.
init_session_state_greetsAlways(ss, uuid) ==
    LET s1 == IF ~Has(ss, "messages") THEN Put(ss, "messages", << >>) ELSE ss
        s2 == IF ~Has(s1, "session_id") THEN Put(s1, "session_id", uuid) ELSE s1
        s3 == Put(s2, "messages", Append(s2.messages, Message("assistant", Greeting)))
    IN  IF ~Has(s3, "web_search_enabled") THEN Put(s3, "web_search_enabled", TRUE) ELSE s3

\* init_session_state that draws a new identifier on every call.
init_session_state_regenerates(ss, uuid) ==
    LET s1 == IF ~Has(ss, "messages") THEN Put(ss, "messages", << >>) ELSE ss
        s2 == IF ~Has(s1, "session_id")
              THEN Put(Put(s1, "session_id", uuid), "messages",
                       Append(s1.messages, Message("assistant", Greeting)))
              ELSE Put(s1, "session_id", uuid)
    IN  IF ~Has(s2, "web_search_enabled") THEN Put(s2, "web_search_enabled", TRUE) ELSE s2

\* Lines 22-38.
init_session_state(ss, uuid) ==
    LET s1 == IF ~Has(ss, "messages") THEN Put(ss, "messages", << >>) ELSE ss
        s2 == IF ~Has(s1, "session_id")
              THEN Put(Put(s1, "session_id", uuid), "messages",
                       Append(s1.messages, Message("assistant", Greeting)))
              ELSE s1
    IN  IF ~Has(s2, "web_search_enabled") THEN Put(s2, "web_search_enabled", TRUE) ELSE s2

\* Lines 92-96: the checkbox writes its value back on every run.
render_agent_settings_section(ss, checkbox) == Put(ss, "web_search_enabled", checkbox)

appendMessage(ss, role, content) ==
    Put(ss, "messages", Append(ss.messages, Message(role, content)))

\* The widgets exist once a first run has drawn the page.
PageDrawn == Has(session_state, "session_id")

Init ==
    /\ session_state = EmptyDict
    /\ pc = "idle"
    /\ prompt = ""
    /\ sent = EmptyDict
    /\ reply = NoReply
    /\ turn_start = << >>
    /\ outcome = NoOutcome
    /\ turns = 0
    /\ clean = TRUE
    /\ upload_outcome = NoUpload
    /\ trace_events = << >>
    /\ displayed = NotDisplayed
    /\ json_error \in JSONErrorClasses

\* A run of main() with no upload click and no chat input: the first page load,
\* or the rerun after the checkbox was set to checkbox.
Rerun(uuid, checkbox) ==
    /\ pc = "idle"
    /\ PageDrawn \/ checkbox = TRUE
    /\ session_state' = render_agent_settings_section(init_session_state(session_state, uuid), checkbox)
    /\ upload_outcome' = NoUpload
    /\ UNCHANGED << pc, prompt, sent, reply, turn_start, outcome, turns, clean,
                    trace_events, displayed, json_error >>

\* A run of main() after "Upload PDF" was clicked with a file chosen.
Upload(uuid, r) ==
    /\ pc = "idle"
    /\ PageDrawn
    /\ session_state' = render_agent_settings_section(init_session_state(session_state, uuid),
                                                      session_state.web_search_enabled)
    /\ upload_outcome' = [clicked |-> TRUE, file |-> "doc.pdf", reply |-> r,
                          shown |-> upload_document("doc.pdf", r, json_error)]
    /\ UNCHANGED << pc, prompt, sent, reply, turn_start, outcome, turns, clean,
                    trace_events, displayed, json_error >>

\* A run of main() after "Upload PDF" was clicked with no file chosen: no request.
UploadWithoutFile(uuid) ==
    /\ pc = "idle"
    /\ PageDrawn
    /\ session_state' = render_agent_settings_section(init_session_state(session_state, uuid),
                                                      session_state.web_search_enabled)
    /\ upload_outcome' = [clicked |-> TRUE, file |-> "none", reply |-> NoReply,
                          shown |-> upload_document("none", NoReply, json_error)]
    /\ UNCHANGED << pc, prompt, sent, reply, turn_start, outcome, turns, clean,
                    trace_events, displayed, json_error >>

\* Submit that posts the query without recording the user's message first.
Submit_sendsFirst(uuid, text) ==
    /\ pc = "idle"
    /\ PageDrawn
    /\ turns < MaxTurns
    /\ LET ss == render_agent_settings_section(init_session_state(session_state, uuid),
                                               session_state.web_search_enabled)
       IN  IF text = ""
           THEN /\ session_state' = ss
                /\ UNCHANGED << pc, prompt, sent, reply, turn_start, outcome, turns, clean >>
           ELSE /\ session_state' = ss
                /\ sent' = [session_id |-> ss.session_id, query |-> text,
                            enable_web_search |-> ss.web_search_enabled]
                /\ turn_start' = ss.messages
                /\ prompt' = text
                /\ pc' = "awaiting"
                /\ turns' = turns + 1
                /\ outcome' = NoOutcome
                /\ reply' = NoReply
                /\ UNCHANGED clean
    /\ upload_outcome' = NoUpload
    /\ UNCHANGED << trace_events, displayed, json_error >>

\* A run of main() after text was entered in the chat input, up to the POST of
\* line 116: lines 174-175 and the payload of lines 110-114.  An empty text
\* is falsy and starts no turn.
Submit(uuid, text) ==
    /\ pc = "idle"
    /\ PageDrawn
    /\ turns < MaxTurns
    /\ LET ss == render_agent_settings_section(init_session_state(session_state, uuid),
                                               session_state.web_search_enabled)
       IN  IF text = ""
           THEN /\ session_state' = ss
                /\ UNCHANGED << pc, prompt, sent, reply, turn_start, outcome, turns, clean >>
           ELSE /\ session_state' = appendMessage(ss, "user", text)
                /\ sent' = [session_id |-> ss.session_id, query |-> text,
                            enable_web_search |-> ss.web_search_enabled]
                /\ turn_start' = ss.messages
                /\ prompt' = text
                /\ pc' = "awaiting"
                /\ turns' = turns + 1
                /\ outcome' = NoOutcome
                /\ reply' = NoReply
                /\ UNCHANGED clean
    /\ upload_outcome' = NoUpload
    /\ UNCHANGED << trace_events, displayed, json_error >>

\* requests.post returns or raises.
BackendResolves(r) ==
    /\ pc = "awaiting"
    /\ reply' = r
    /\ pc' = "resolved"
    /\ UNCHANGED << session_state, prompt, sent, turn_start, outcome, turns, clean,
                    upload_outcome, trace_events, displayed, json_error >>

\* The rest of the run: lines 117-123 and 193-211.
HandleReply ==
    /\ pc = "resolved"
    /\ LET call == call_backend_chat_api(reply, json_error)
       IN  IF call.raised # NoExc
           THEN LET h == ChatHandler(call.raised)
                IN  /\ session_state' =
                          IF h.branch = "uncaught" THEN session_state
                          ELSE appendMessage(session_state, "assistant", h.content)
                    /\ outcome' = [result |-> IF h.branch = "uncaught" THEN "crashed" ELSE "failed",
                                   stage |-> "call", branch |-> h.branch,
                                   reply |-> reply, session_id |-> sent.session_id]
                    /\ clean' = FALSE
                    /\ trace_events' = << >>
                    /\ displayed' = NotDisplayed
           ELSE LET answered == appendMessage(session_state, "assistant", call.agent_response)
                    shown    == display_trace_events(call.trace_events)
                    h        == ChatHandler(Exc(shown.raised, "'" \o shown.key \o "'", NoResponse))
                IN  /\ trace_events' = call.trace_events
                    /\ displayed' = shown
                    /\ IF shown.raised = "none"
                       THEN /\ session_state' = answered
                            /\ outcome' = [result |-> "completed", stage |-> "none",
                                           branch |-> "none", reply |-> reply,
                                           session_id |-> sent.session_id]
                            /\ UNCHANGED clean
                       ELSE /\ session_state' =
                                  IF h.branch = "uncaught" THEN answered
                                  ELSE appendMessage(answered, "assistant", h.content)
                            /\ outcome' = [result |-> IF h.branch = "uncaught" THEN "crashed" ELSE "failed",
                                           stage |-> "render", branch |-> h.branch,
                                           reply |-> reply, session_id |-> sent.session_id]
                            /\ clean' = FALSE
    /\ pc' = "idle"
    /\ sent' = EmptyDict
    /\ reply' = NoReply
    /\ UNCHANGED << prompt, turn_start, turns, upload_outcome, json_error >>

Next ==
    \/ \E uuid \in UUIDs, checkbox \in BOOLEAN : Rerun(uuid, checkbox)
    \/ \E uuid \in UUIDs, r \in UploadReplies : Upload(uuid, r)
    \/ \E uuid \in UUIDs : UploadWithoutFile(uuid)
    \/ \E uuid \in UUIDs, text \in Prompts : Submit(uuid, text)
    \/ \E r \in ChatReplies : BackendResolves(r)
    \/ HandleReply

Spec == Init /\ [][Next]_vars

\* ------------------------------------------------------------------ the trace formatter alone

InitTrace ==
    /\ session_state = [messages |-> << Message("assistant", Greeting) >>,
                        session_id |-> "uuid-a", web_search_enabled |-> TRUE]
    /\ pc = "trace"
    /\ prompt = ""
    /\ sent = EmptyDict
    /\ reply = NoReply
    /\ turn_start = << >>
    /\ outcome = NoOutcome
    /\ turns = 0
    /\ clean = TRUE
    /\ upload_outcome = NoUpload
    /\ trace_events \in Traces(EventBodies, MaxTraceLen)
    /\ displayed = NotDisplayed
    /\ json_error = "RequestsJSONDecodeError"

Present ==
    /\ pc = "trace"
    /\ displayed' = display_trace_events(trace_events)
    /\ pc' = "traced"
    /\ UNCHANGED << session_state, prompt, sent, reply, turn_start, outcome, turns,
                    clean, upload_outcome, trace_events, json_error >>

NextTrace == Present

SpecTrace == InitTrace /\ [][NextTrace]_vars

\* ================================================================== claims

messages == session_state.messages

TurnOver == pc = "idle" /\ outcome.result # "none"

LastMessage == messages[Len(messages)]

\* C1: every completed turn, whatever its outcome (success, a failed call, or an
\* exception raised after the reply was received), grows the history by exactly
\* two entries: the user message followed by one assistant message.
C1_TurnAppendsExactlyTwo ==
    TurnOver =>
        /\ Len(messages) = Len(turn_start) + 2
        /\ SubSeq(messages, 1, Len(turn_start)) = turn_start
        /\ messages[Len(turn_start) + 1] = Message("user", prompt)
        /\ messages[Len(turn_start) + 2].role = "assistant"

\* The turn ended with the chat call itself raising.
CallFailed == TurnOver /\ outcome.stage = "call"

\* The failure kind of a reply: unreachable backend, error status, a body that
\* is not JSON, anything else that makes the call fail.
Cause(r) ==
    IF r.kind = "unreachable" THEN "connection"
    ELSE IF r.status # 200 THEN "protocol"
    ELSE IF r.body.form = "invalid" THEN "decode"
    ELSE "unexpected"

SubmitTurn == \E uuid \in UUIDs : Submit(uuid, "hello")

\* C2: when the chat call fails, with any failure kind, the turn resolves: the
\* history is the history before the turn plus the user message plus exactly one
\* assistant error message, the session identifier is the one the request
\* carried, no exception escaped the handler, and the next submission is
\* accepted.
C2_FailedCallResolves ==
    CallFailed =>
        /\ outcome.result = "failed"
        /\ Len(messages) = Len(turn_start) + 2
        /\ SubSeq(messages, 1, Len(turn_start)) = turn_start
        /\ messages[Len(turn_start) + 1] = Message("user", prompt)
        /\ LastMessage.role = "assistant"
        /\ LastMessage.content \notin {Answer, DefaultAnswer, Greeting, ""}
        /\ session_state.session_id = outcome.session_id
        /\ (turns < MaxTurns => ENABLED SubmitTurn)

\* A second turn that failed to decode, submitted after a first turn that failed
\* to connect.
C2_Witness ==
    /\ CallFailed
    /\ turns = 2
    /\ Cause(outcome.reply) = "decode"
    /\ turn_start[3] = Message("assistant", "Error: Could not connect to the backend.")

\* C3: after init_session_state and N successful turns the history has length
\* 1 + 2N, starts with the assistant greeting and then alternates user,
\* assistant; with N = 0 it is the greeting alone.
C3_GreetingThenAlternation ==
    (pc = "idle" /\ clean /\ Has(session_state, "messages")) =>
        /\ Len(messages) = 1 + 2 * turns
        /\ messages[1] = Message("assistant", Greeting)
        /\ \A i \in 2..Len(messages) :
              messages[i].role = IF i % 2 = 0 THEN "user" ELSE "assistant"

\* Two successful turns have ended: the greeting and two user/assistant pairs.
C3_Witness ==
    /\ pc = "idle"
    /\ clean
    /\ turns = 2
    /\ outcome.result = "completed"
    /\ Len(messages) = 5

\* C4: once created, the session identifier never changes, whatever runs
\* follow, and every chat request carries it.
C4_SessionIdNeverChanges ==
    [][ /\ Has(session_state, "session_id") =>
              /\ Has(session_state', "session_id")
              /\ session_state'.session_id = session_state.session_id
        /\ Has(sent', "session_id") => sent'.session_id = session_state'.session_id ]_vars

\* The request of a second turn, sent after a failed first turn.
C4_Witness ==
    /\ pc = "awaiting"
    /\ turns = 2
    /\ ~clean
    /\ sent.session_id = session_state.session_id

\* C5: while the call of a turn is outstanding or has resolved, the history is
\* the history before the turn plus that turn's prompt as its last entry, which
\* the request carries; the assistant entry comes only after the reply was
\* handled, behind the prompt.
C5_UserMessageBeforeRequest ==
    /\ pc \in {"awaiting", "resolved"} =>
          /\ messages = Append(turn_start, Message("user", prompt))
          /\ sent.query = prompt
    /\ TurnOver =>
          /\ Len(messages) > Len(turn_start)
          /\ messages[Len(turn_start) + 1] = Message("user", prompt)

\* The second turn's call has resolved with an HTTP reply and the prompt is
\* the last entry.
C5_Witness ==
    /\ pc = "resolved"
    /\ turns = 2
    /\ reply.kind = "response"
    /\ LastMessage = Message("user", "hello")

InParts(parts, text) == \E i \in 1..Len(parts) : parts[i] = text

\* C6: an upload answered with a 4xx or 5xx status and an error body shows the
\* backend's error text to the user, not the placeholder.
C6_UploadShowsBackendError ==
    (/\ upload_outcome.clicked
     /\ upload_outcome.file # "none"
     /\ upload_outcome.reply.kind = "response"
     /\ upload_outcome.reply.status # 200
     /\ upload_outcome.reply.body = DetailBody) =>
        /\ InParts(upload_outcome.shown.parts, DetailBody.text)
        /\ ~InParts(upload_outcome.shown.parts, Placeholder)

\* C7: display_trace_events completes on every trace, with one finished record
\* per event in the order given, also when an event has no details or an
\* unknown node name; an unknown node with details shows them verbatim.
C7_TraceFormattingNeverFails ==
    pc = "traced" =>
        /\ displayed.raised = "none"
        /\ Len(displayed.records) = Len(trace_events)
        /\ \A i \in 1..Len(trace_events) :
              /\ displayed.records[i].separator
              /\ displayed.records[i].step = trace_events[i].step
              /\ displayed.records[i].node_name = trace_events[i].node_name
              /\ (/\ trace_events[i].node_name = "unknown_node"
                  /\ trace_events[i].details # EmptyDict) =>
                    displayed.records[i].lines = << [call |-> "json", body |-> trace_events[i].details] >>

HasCall(rec, c) == \E j \in 1..Len(rec.lines) : rec.lines[j].call = c

Finished(i) == i \in 1..Len(displayed.records) /\ displayed.records[i].separator

IsSufficient(details) ==
    Has(details, "sufficiency_verdict") /\ details.sufficiency_verdict = "Sufficient"

\* C8 as stated: every rag_lookup record is marked positive exactly when the
\* verdict is "Sufficient" and cautionary in every other case.
C8_VerdictMarksEveryRagLookup ==
    pc = "traced" =>
        \A i \in 1..Len(trace_events) :
            (Finished(i) /\ trace_events[i].node_name = "rag_lookup") =>
                /\ HasCall(displayed.records[i], "success") <=> IsSufficient(trace_events[i].details)
                /\ HasCall(displayed.records[i], "warning") <=> ~IsSufficient(trace_events[i].details)

\* C8 amended: a rag_lookup record whose details carry a sufficiency_verdict is
\* marked positive exactly when the verdict is "Sufficient" and cautionary for
\* every other verdict; without a sufficiency_verdict it carries neither mark.
C8_VerdictMarksWhenPresent ==
    pc = "traced" =>
        \A i \in 1..Len(trace_events) :
            (Finished(i) /\ trace_events[i].node_name = "rag_lookup") =>
                IF Has(trace_events[i].details, "sufficiency_verdict")
                THEN /\ HasCall(displayed.records[i], "success")
                            <=> trace_events[i].details.sufficiency_verdict = "Sufficient"
                     /\ HasCall(displayed.records[i], "warning")
                            <=> trace_events[i].details.sufficiency_verdict # "Sufficient"
                ELSE /\ ~HasCall(displayed.records[i], "success")
                     /\ ~HasCall(displayed.records[i], "warning")

\* A trace whose first event is a sufficient lookup shown as positive and whose
\* second is an insufficient lookup shown as cautionary.
C8_Witness ==
    /\ pc = "traced"
    /\ Len(trace_events) = 2
    /\ Finished(2)
    /\ trace_events[1].node_name = "rag_lookup"
    /\ trace_events[2].node_name = "rag_lookup"
    /\ IsSufficient(trace_events[1].details)
    /\ Has(trace_events[2].details, "sufficiency_verdict")
    /\ ~IsSufficient(trace_events[2].details)
    /\ HasCall(displayed.records[1], "success")
    /\ HasCall(displayed.records[2], "warning")

\* C9: a rag_lookup or web_search event whose details carry a
\* retrieved_content_summary shows it as a quoted excerpt, whatever other
\* fields the details have.
C9_SummaryAlwaysQuoted ==
    pc = "traced" =>
        \A i \in 1..Len(trace_events) :
            (/\ Finished(i)
             /\ trace_events[i].node_name \in {"rag_lookup", "web_search"}
             /\ Has(trace_events[i].details, "retrieved_content_summary")) =>
                \E j \in 1..Len(displayed.records[i].lines) :
                    /\ displayed.records[i].lines[j].call = "markdown"
                    /\ displayed.records[i].lines[j].text
                           = trace_events[i].details.retrieved_content_summary

\* C10: each failure kind is recorded by its own branch: connection failures as
\* the connection message, 4xx and 5xx replies as the request-error rendering,
\* an undecodable 2xx body as "Error: Invalid response from backend.", and
\* anything else as the unexpected-error rendering.
C10_FailureKindsDistinguished ==
    CallFailed =>
        /\ Cause(outcome.reply) = "connection" =>
              /\ outcome.branch = "connection"
              /\ LastMessage.content = "Error: Could not connect to the backend."
        /\ Cause(outcome.reply) = "protocol" =>
              /\ outcome.branch = "request"
              /\ LastMessage.content \in {"Error: " \o HTTPErrorStr(s) : s \in Statuses \ {200}}
        /\ Cause(outcome.reply) = "decode" =>
              /\ outcome.branch = "decode"
              /\ LastMessage.content = "Error: Invalid response from backend."
        /\ Cause(outcome.reply) = "unexpected" =>
              /\ outcome.branch = "unexpected"
              /\ LastMessage.content = "Unexpected Error: 'list' object has no attribute 'get'"

====
